---- MODULE Spec2Model ----
(***************************************************************************)
(* Model of the resource reconciliation code of wonders-of-the-world:      *)
(*   - infra/mongodb_collection.py: MongoDBCollectionProvider.create and   *)
(*     its connection supervisor __connect_with_retry;                     *)
(*   - infra/__main__.py: the orchestration script (create_mongodb_        *)
(*     collection, is_collection_created, search_index, the final report). *)
(* Spec     is the provider layer: create calls against a remote database. *)
(* PlanSpec is one run of the orchestration script.                        *)
(***************************************************************************)
EXTENDS Naturals, Sequences, FiniteSets

VARIABLES
  \* ---- provider layer (mongodb_collection.py) and the remote it talks to
  pc,          \* position of the current create call
  props,       \* props of the current create call
  attempt,     \* local `attempt` of __connect_with_retry
  pings,       \* connection attempts (ping commands) made in the current call
  badAuths,    \* attempts of the current call the remote rejected with "bad auth"
  otherFails,  \* attempts of the current call that failed with another error
  sleeps,      \* seconds slept in time.sleep(retry_delay) in the current call
  lastGap,     \* seconds slept between the previous ping (or the start of the
               \* call) and the latest ping
  waited,      \* seconds slept since the latest ping
  client,      \* local `client` of create: 0 is None, else the session's number
  sessions,    \* sessions opened in the current call that are still open
  cmds,        \* remote create commands issued in the current call
  cmdOutcome,  \* what the remote answered to the create command
  result,      \* what the current create call returned or raised
  remoteBefore,\* remote collections when the current call started
  remoteAfter, \* remote collections when the current call ended
  prev,        \* the previous finished create call
  remoteColls, \* collections that exist on the remote
  scriptResult,\* last value of the script's create_mongodb_collection
  scriptOutcome,\* what the remote answered to the script's last create command
  \* ---- orchestration script (__main__.py)
  node,        \* state of each resource / output of the program
  collCmds,    \* create commands the script issued for the collection
  indexReqs,   \* SearchIndex resources the script requested
  collSignal,  \* what the remote answered to the script's collection command
  polls,       \* Building observations made while waiting for the index build
  lastStatus,  \* the index status observed by the last poll
  errors,      \* the failures the run has reported: node names, or exceptions
  firstDone,   \* which of user and ip finished its creation first
  report,      \* what the final apply (the "index is ready" message) did
  \* ---- query endpoint (app.py)
  reqs,        \* requests to /vectorsearch answered so far
  args,        \* query parameters of the last request
  embedCalls,  \* get_embedding calls made by the last request
  dbCalls,     \* collection.aggregate calls made by the last request
  dbOutcome,   \* what collection.aggregate did in the last request
  resp,        \* the response to the last request
  \* ---- sample-data loader (db.py)
  lpc,         \* position of _load_sample_data
  data,        \* data_entries, the entries read from data.json
  idx,         \* entries the for loop has gone through
  buffer,      \* local `buffer`: the _id's of the documents waiting for insert
  passed,      \* for each _id, how often it was passed to insert_many
  inserted_doc_count  \* local `inserted_doc_count`

pvars == <<pc, props, attempt, pings, badAuths, otherFails, sleeps, lastGap,
           waited, client,
           sessions, cmds, cmdOutcome, result, remoteBefore, remoteAfter, prev,
           remoteColls, scriptResult, scriptOutcome>>
plvars == <<node, collCmds, indexReqs, collSignal, polls, lastStatus, errors,
            firstDone, report>>
\* the provider layer's variables other than the remote's collections
provState == <<pc, props, attempt, pings, badAuths, otherFails, sleeps,
               lastGap, waited, client,
               sessions, cmds, cmdOutcome, result, remoteBefore, remoteAfter,
               prev, scriptResult, scriptOutcome>>
avars == <<reqs, args, embedCalls, dbCalls, dbOutcome, resp>>
lvars == <<lpc, data, idx, buffer, passed, inserted_doc_count>>
vars == <<pvars, plvars, avars, lvars>>

(***************************************************************************)
(* Bounds and program constants                                            *)
(***************************************************************************)
MaxPings == 7          \* cap on the connection attempts of one call
MaxPolls == 3          \* Building observations before the index wait times out
MaxRequests == 6       \* cap on the requests to /vectorsearch
MaxEntries == 42       \* cap on the entries of data.json
SearchLimit == 5       \* "limit" of the $vectorSearch stage
max_retries == 5       \* default of __connect_with_retry
retry_delay == 10      \* default of __connect_with_retry, seconds
bulk_size == 20        \* local of _load_sample_data

(***************************************************************************)
(* Error texts, as sequences of words; `"x" in str(e)` is a search for a   *)
(* contiguous run of words.                                                *)
(***************************************************************************)
Contains(text, pat) ==
  \E i \in 1..(Len(text) + 1 - Len(pat)) :
     SubSeq(text, i, i + Len(pat) - 1) = pat

BadAuthText == <<"bad", "auth", ":", "authentication", "failed">>
NotAuthorizedText == <<"not", "authorized", "on", "admin", "to", "execute", "command">>
TimeoutText == <<"server", "selection", "timed", "out">>
AlreadyExistsText == <<"collection", "already", "exists">>

Ok == [kind |-> "ok", text |-> <<>>]
OperationFailure(text) == [kind |-> "OperationFailure", text |-> text]
ConnectionFailure(text) == [kind |-> "PyMongoError", text |-> text]

\* what client.admin.command('ping') can do
PingOutcomes ==
  { Ok, OperationFailure(BadAuthText), OperationFailure(NotAuthorizedText),
    ConnectionFailure(TimeoutText) }

\* the faults the remote can answer a create command with
Faults == {"none", "unauthorized", "network"}

\* what the remote does with a "create" command on namespace ns
RemoteSignal(colls, ns, fault) ==
  IF fault = "network" THEN "connection error"
  ELSE IF fault = "unauthorized" THEN "rejected"
  ELSE IF ns \in colls THEN "exists"
  ELSE "created"

\* what the driver's command("create", ...) returns or raises for it
RemoteCreate(colls, ns, fault) ==
  LET sig == RemoteSignal(colls, ns, fault) IN
  IF sig = "connection error" THEN ConnectionFailure(TimeoutText)
  ELSE IF sig = "rejected" THEN OperationFailure(NotAuthorizedText)
  ELSE IF sig = "exists" THEN OperationFailure(AlreadyExistsText)
  ELSE Ok

RemoteAfter(colls, ns, fault) ==
  IF RemoteSignal(colls, ns, fault) = "created" THEN colls \cup {ns} ELSE colls

(***************************************************************************)
(* props: a dictionary of strings; a key may be missing                    *)
(***************************************************************************)
DbNames == {"", "ww"}
CollNames == {"", "facts", "notes"}
PropsSet ==
  { <<>> } \cup
  { [db |-> d] : d \in DbNames } \cup
  { [coll |-> c] : c \in CollNames } \cup
  { [db |-> d, coll |-> c] : d \in DbNames, c \in CollNames }

NoProps == <<>>

\* the namespaces the remote can hold
RemoteNamespaces ==
  { d \o "." \o c : d \in DbNames \ {""}, c \in CollNames \ {""} }

\* `not props.get(k)`: the key is missing or its value is empty
Falsy(p, k) == k \notin DOMAIN p \/ p[k] = ""

\* f"{db_name}.{collection_name}"
ResourceId(p) == p.db \o "." \o p.coll

NoResult == [kind |-> "none", id |-> "", outs |-> NoProps]
CreateResult(p) == [kind |-> "CreateResult", id |-> ResourceId(p), outs |-> p]
Raised(exc) == [kind |-> exc, id |-> "", outs |-> NoProps]

NoCall == [props |-> NoProps, result |-> NoResult, cmdOutcome |-> "none",
           before |-> {}, after |-> {}]

(***************************************************************************)
(* MongoDBCollectionProvider.create, up to the call of the supervisor      *)
(***************************************************************************)
\* variant: both names must be missing for the spec to be invalid
InvalidSpecAnd(p) == Falsy(p, "db") /\ Falsy(p, "coll")

InvalidSpec(p) == Falsy(p, "db") \/ Falsy(p, "coll")

Finished == pc \in {"idle", "done"}

ThisCall == [props |-> props, result |-> result, cmdOutcome |-> cmdOutcome,
             before |-> remoteBefore, after |-> remoteAfter]

Create_Start(p) ==
  /\ Finished
  /\ prev' = IF pc = "done" THEN ThisCall ELSE prev
  /\ props' = p
  /\ attempt' = 0
  /\ pings' = 0
  /\ badAuths' = 0
  /\ otherFails' = 0
  /\ sleeps' = 0
  /\ lastGap' = 0
  /\ waited' = 0
  /\ client' = 0
  /\ sessions' = {}
  /\ cmds' = 0
  /\ cmdOutcome' = "none"
  /\ remoteBefore' = remoteColls
  /\ remoteAfter' = remoteColls
  /\ IF InvalidSpec(p)
       THEN /\ result' = Raised("ValueError")
            /\ pc' = "done"
       ELSE /\ result' = NoResult
            /\ pc' = "connect"
  /\ UNCHANGED <<remoteColls, scriptResult, scriptOutcome, plvars, avars, lvars>>

(***************************************************************************)
(* __connect_with_retry: one iteration of the while loop                   *)
(***************************************************************************)
\* variant: a rejected attempt counts twice
AfterBadAuthTwice(a) == a + 2

\* `attempt += 1`
AfterBadAuth(a) == a + 1

\* variant: `while attempt <= max_retries`
RetryLoopGuardLeq(a) == a <= max_retries

RetryLoopGuard(a) == a < max_retries

IsBadAuth(o) == o.kind = "OperationFailure" /\ Contains(o.text, <<"bad", "auth">>)

\* `time.sleep(retry_delay)` between MongoClient(...) and the ping
SleepBeforePing == retry_delay

\* `time.sleep(retry_delay)` after a ping rejected with "bad auth"; the other
\* branches do not sleep
SleepAfter(o) == IF IsBadAuth(o) THEN retry_delay ELSE 0

\* variant: create does not test what the supervisor returned
AfterConnectUnchecked(c) == "command"

\* `client = self.__connect_with_retry(props)`, `if not client: raise`:
\* where create goes on once the supervisor has returned c
AfterConnect(c) == IF c = 0 THEN "done" ELSE "command"

Connect_Attempt(o) ==
  /\ pc = "connect"
  /\ RetryLoopGuard(attempt)
  /\ pings < MaxPings
  /\ pings' = pings + 1
  /\ lastGap' = waited + SleepBeforePing
  /\ waited' = SleepAfter(o)
  /\ IF o = Ok
       THEN \* ping succeeded: return client
            /\ client' = pings + 1
            /\ sessions' = sessions \cup {pings + 1}
            /\ sleeps' = sleeps + SleepBeforePing
            /\ pc' = AfterConnect(pings + 1)
            /\ UNCHANGED <<attempt, badAuths, otherFails>>
       ELSE /\ sessions' = sessions \cup {pings + 1}
            /\ pc' = "connect"
            /\ client' = client
            /\ IF IsBadAuth(o)
                 THEN /\ attempt' = AfterBadAuth(attempt)
                      /\ badAuths' = badAuths + 1
                      /\ sleeps' = sleeps + SleepBeforePing + SleepAfter(o)
                      /\ UNCHANGED otherFails
                 ELSE /\ otherFails' = otherFails + 1
                      /\ sleeps' = sleeps + SleepBeforePing
                      /\ UNCHANGED <<attempt, badAuths>>
  /\ UNCHANGED <<props, cmds, cmdOutcome, result, remoteBefore, remoteAfter,
                 prev, remoteColls, scriptResult, scriptOutcome, plvars, avars, lvars>>

\* the loop ends: return None, and create raises RuntimeError
Connect_Exhausted ==
  /\ pc = "connect"
  /\ ~RetryLoopGuard(attempt)
  /\ client' = 0
  /\ pc' = AfterConnect(0)
  /\ result' = IF AfterConnect(0) = "done" THEN Raised("RuntimeError") ELSE result
  /\ remoteAfter' = remoteColls
  /\ UNCHANGED <<props, attempt, pings, badAuths, otherFails, sleeps, lastGap,
                 waited, sessions, cmds, cmdOutcome, remoteBefore, prev, remoteColls,
                 scriptResult, scriptOutcome, plvars, avars, lvars>>

(***************************************************************************)
(* MongoDBCollectionProvider.create, from the create command to the end    *)
(***************************************************************************)
IsAlreadyExists(o) ==
  o.kind = "OperationFailure" /\ Contains(o.text, <<"already", "exists">>)

\* `finally: if client is not None: client.close()`
CloseClient(c, s) == IF c # 0 THEN s \ {c} ELSE s

\* variant: "already exists" is an error
CreateOutcomeStrict(p, o) ==
  IF o = Ok THEN CreateResult(p) ELSE Raised("RuntimeError")

\* variant: every OperationFailure is taken for "already exists"
CreateOutcomeLax(p, o) ==
  IF o = Ok \/ o.kind = "OperationFailure"
    THEN CreateResult(p)
    ELSE Raised("RuntimeError")

\* the create command answered o: what create returns or raises
CreateOutcome(p, o) ==
  IF o = Ok THEN CreateResult(p)
  ELSE IF o.kind = "OperationFailure"
    THEN IF IsAlreadyExists(o) THEN CreateResult(p)
                               ELSE Raised("RuntimeError")
    ELSE Raised("RuntimeError")

\* variant: a rejected create command is issued again
AfterCommandRetry(o) ==
  IF o.kind = "OperationFailure" /\ ~IsAlreadyExists(o) THEN "command" ELSE "done"

\* where create is after the create command answered o: it has returned or
\* raised, no loop surrounds the command
AfterCommand(o) == "done"

Create_Command(fault) ==
  /\ pc = "command"
  /\ LET o == RemoteCreate(remoteColls, ResourceId(props), fault) IN
       /\ cmds' = cmds + 1
       /\ cmdOutcome' = RemoteSignal(remoteColls, ResourceId(props), fault)
       /\ remoteColls' = RemoteAfter(remoteColls, ResourceId(props), fault)
       /\ remoteAfter' = remoteColls'
       /\ result' = CreateOutcome(props, o)
       /\ sessions' = CloseClient(client, sessions)
  /\ pc' = AfterCommand(RemoteCreate(remoteColls, ResourceId(props), fault))
  /\ UNCHANGED <<props, attempt, pings, badAuths, otherFails, sleeps, lastGap,
                 waited, client, remoteBefore, prev, scriptResult, scriptOutcome,
                 plvars, avars, lvars>>

(***************************************************************************)
(* __main__.py: create_mongodb_collection, called on its own               *)
(***************************************************************************)
DB_NAME == "ww"
COLLECTION_NAME == "facts"
ScriptNs == DB_NAME \o "." \o COLLECTION_NAME

\* variant: "already exists" yields False
create_mongodb_collection_strict(o) ==
  IF o = Ok THEN "True"
  ELSE IF o.kind = "OperationFailure" THEN "False"
  ELSE "Raised"

create_mongodb_collection(o) ==
  IF o = Ok THEN "True"
  ELSE IF o.kind = "OperationFailure"
    THEN IF IsAlreadyExists(o) THEN "True" ELSE "False"
    ELSE "Raised"

Script_Create(fault) ==
  /\ Finished
  /\ scriptResult' =
       create_mongodb_collection(RemoteCreate(remoteColls, ScriptNs, fault))
  /\ scriptOutcome' = RemoteSignal(remoteColls, ScriptNs, fault)
  /\ remoteColls' = RemoteAfter(remoteColls, ScriptNs, fault)
  /\ UNCHANGED <<pc, props, attempt, pings, badAuths, otherFails, sleeps, lastGap,
                 waited, client, sessions, cmds, cmdOutcome, result, remoteBefore,
                 remoteAfter, prev, plvars, avars, lvars>>

(***************************************************************************)
(* __main__.py: one run of the program.  A resource's outputs are known    *)
(* once its creation has succeeded; an apply callback runs once all the    *)
(* outputs it is applied to are known.                                     *)
(***************************************************************************)
Resources == {"cluster", "user", "ip"}
Nodes == Resources \cup {"collection", "index"}

\* vector_user: depends_on=[vector_database]; the others depend on nothing
ResourceDeps(n) == IF n = "user" THEN {"cluster"} ELSE {}

Resource_Start(n) ==
  /\ node[n] = "Pending"
  /\ \A d \in ResourceDeps(n) : node[d] = "Succeeded"
  /\ node' = [node EXCEPT ![n] = "InProgress"]
  /\ UNCHANGED <<collCmds, indexReqs, collSignal, polls, lastStatus, errors,
                 firstDone, report, pvars, avars, lvars>>

Resource_Finish(n, ok) ==
  /\ node[n] = "InProgress"
  /\ node' = [node EXCEPT ![n] = IF ok THEN "Succeeded" ELSE "Failed"]
  \* a resource whose creation failed is reported by name
  /\ errors' = IF ok THEN errors ELSE errors \cup {n}
  /\ firstDone' = IF firstDone = "none" /\ n \in {"user", "ip"}
                    THEN n ELSE firstDone
  /\ UNCHANGED <<collCmds, indexReqs, collSignal, polls, lastStatus, report,
                 pvars, avars, lvars>>

\* Output.all(vector_user.username, vector_user.password,
\*            vector_database.connection_strings, my_current_ip.id)
\* variant: my_current_ip.id is not among the inputs
CollectionInputsKnownNoIp ==
  node["user"] = "Succeeded" /\ node["cluster"] = "Succeeded"

\* variant: the user's outputs are not among the inputs
CollectionInputsKnownNoUser ==
  node["cluster"] = "Succeeded" /\ node["ip"] = "Succeeded"

CollectionInputsKnown ==
  /\ node["user"] = "Succeeded"
  /\ node["cluster"] = "Succeeded"
  /\ node["ip"] = "Succeeded"

\* variant: the callback runs again after it yielded False
ApplyPendingOrFalse(v) == v \in {"Pending", "False"}

\* an apply callback runs once: only while its output is unresolved
ApplyPending(v) == v = "Pending"

\* is_collection_created: the apply callback calls create_mongodb_collection
Collection_Apply(fault) ==
  /\ ApplyPending(node["collection"])
  /\ CollectionInputsKnown
  /\ collCmds' = collCmds + 1
  /\ LET r == create_mongodb_collection(RemoteCreate(remoteColls, ScriptNs, fault))
     IN /\ node' = [node EXCEPT !["collection"] = r]
        \* an exception that leaves the callback is reported; False is not
        /\ errors' = IF r = "Raised" THEN errors \cup {"collection"} ELSE errors
  /\ collSignal' = RemoteSignal(remoteColls, ScriptNs, fault)
  /\ remoteColls' = RemoteAfter(remoteColls, ScriptNs, fault)
  /\ UNCHANGED <<indexReqs, polls, lastStatus, firstDone, report, provState, avars, lvars>>

\* `SearchIndex(...) if created else None`
\* variant: the index is requested whatever `created` is
IndexWantedAlways(created) == TRUE

\* variant: `if not created`
IndexWantedInverted(created) == created # "True"

IndexWanted(created) == created = "True"

\* search_index: the apply callback runs once is_collection_created is known
SearchIndex_Apply ==
  /\ node["index"] = "Pending"
  /\ node["collection"] \in {"True", "False"}
  /\ IF IndexWanted(node["collection"])
       THEN /\ node' = [node EXCEPT !["index"] = "Building"]
            /\ indexReqs' = indexReqs + 1
       ELSE /\ node' = [node EXCEPT !["index"] = "None"]
            /\ UNCHANGED indexReqs
  /\ UNCHANGED <<collCmds, collSignal, polls, lastStatus, errors, firstDone,
                 report, pvars, avars, lvars>>

\* wait_for_index_build_completion=True: the creation of the SearchIndex
\* ends when the observed status is no longer a building one
IndexStatuses == {"BUILDING", "STEADY", "FAILED"}

\* variant: a wait that timed out is reported as a failed build
WaitOutcomeTimeoutFails(status, n) ==
  IF status = "STEADY" THEN "Steady"
  ELSE IF status = "FAILED" THEN "Failed"
  ELSE IF n < MaxPolls THEN "Building"
  ELSE "Failed"

\* the state of the wait after observing `status` with n Building
\* observations made before
WaitOutcome(status, n) ==
  IF status = "STEADY" THEN "Steady"
  ELSE IF status = "FAILED" THEN "Failed"
  ELSE IF n < MaxPolls THEN "Building"
  ELSE "Timeout"

Index_Poll(status) ==
  /\ node["index"] = "Building"
  /\ lastStatus' = status
  /\ LET w == WaitOutcome(status, polls) IN
       /\ node' = [node EXCEPT !["index"] = w]
       /\ polls' = IF w = "Building" THEN polls + 1 ELSE polls
       \* a SearchIndex whose creation failed is reported by name
       /\ errors' = IF w \in {"Failed", "Timeout"}
                      THEN errors \cup {"index"} ELSE errors
  /\ UNCHANGED <<collCmds, indexReqs, collSignal, firstDone, report, pvars, avars, lvars>>

\* Output.all(search_index.status, search_index.name).apply(print ... if
\* args[0] == "STEADY" else None); None has no attribute status
Report ==
  /\ report = "none"
  /\ node["index"] \in {"None", "Steady"}
  /\ report' = IF node["index"] = "None" THEN "AttributeError" ELSE "ready"
  /\ errors' = IF node["index"] = "None"
                 THEN errors \cup {"AttributeError"} ELSE errors
  /\ UNCHANGED <<node, collCmds, indexReqs, collSignal, polls, lastStatus,
                 firstDone, pvars, avars, lvars>>

(***************************************************************************)
(* app.py: vector_search, the handler of GET /vectorsearch                 *)
(***************************************************************************)
\* request.args: the prompt parameter may be missing or empty
ArgsSet == { <<>>, [prompt |-> ""], [prompt |-> "wonders"], [prompt |-> "pyramid"] }

\* what collection.aggregate(pipeline) and the iteration over it can do:
\* return at most SearchLimit documents, or raise
AggregateOutcomes ==
  { [kind |-> "ok", docs |-> k] : k \in 0..SearchLimit } \cup
  { [kind |-> e, docs |-> 0] :
      e \in {"PyMongoError", "OperationFailure", "NetworkTimeout", "ValueError"} }

NoOutcome == [kind |-> "none", docs |-> 0]
NoResponse == [status |-> 0, kind |-> "none", query |-> "", results |-> 0]
ErrorResponse(code, what) ==
  [status |-> code, kind |-> what, query |-> "", results |-> 0]
ResultsResponse(q, n) ==
  [status |-> 200, kind |-> "results", query |-> q, results |-> n]

\* variant: `if prompt is None`
PromptMissingNone(a) == "prompt" \notin DOMAIN a

\* `if not prompt`
PromptMissing(a) == Falsy(a, "prompt")

\* the response to a database call that did o
SearchResponse(q, o) ==
  IF o.kind = "ok" THEN ResultsResponse(q, o.docs)
  ELSE IF o.kind \in {"PyMongoError", "OperationFailure", "NetworkTimeout"}
    THEN ErrorResponse(500, "Database error")
  ELSE ErrorResponse(400, "Data error")

vector_search(a, o) ==
  /\ reqs < MaxRequests
  /\ reqs' = reqs + 1
  /\ args' = a
  /\ IF PromptMissing(a)
       THEN /\ resp' = ErrorResponse(400, "Missing prompt")
            /\ embedCalls' = 0
            /\ dbCalls' = 0
            /\ dbOutcome' = NoOutcome
       ELSE /\ embedCalls' = 1
            /\ dbCalls' = 1
            /\ dbOutcome' = o
            /\ resp' = SearchResponse(a.prompt, o)
  /\ UNCHANGED <<pvars, plvars, lvars>>

AppStart ==
  /\ reqs = 0
  /\ args = <<>>
  /\ embedCalls = 0
  /\ dbCalls = 0
  /\ dbOutcome = NoOutcome
  /\ resp = NoResponse

AppNext == \E a \in ArgsSet, o \in AggregateOutcomes : vector_search(a, o)

(***************************************************************************)
(* db.py: _load_sample_data                                                *)
(***************************************************************************)
\* data.json with n entries; the entries whose position is in t have no text
Entries(n, t) == [i \in 1..n |-> [id |-> i, hasText |-> i \notin t]]

DataSets == { Entries(n, t) : n \in 0..MaxEntries, t \in {{}, {1}} }

\* `collection.insert_many(buf)`: every document of buf is passed once more
InsertMany(buf, p) ==
  [d \in DOMAIN p |->
     IF \E i \in 1..Len(buf) : buf[i] = d THEN p[d] + 1 ELSE p[d]]

\* `with open("data.json") ... json.load(file)`; on an error return 0
Load_Read(ok) ==
  /\ lpc = "start"
  /\ lpc' = IF ok THEN "loop" ELSE "done"
  /\ UNCHANGED <<data, idx, buffer, passed, inserted_doc_count>>
  /\ UNCHANGED <<pvars, plvars, avars>>

\* one iteration of `for entry in data_entries`; ok tells whether insert_many
\* returns or raises, should this iteration call it
Load_Entry(ok) ==
  /\ lpc = "loop"
  /\ idx < Len(data)
  /\ idx' = idx + 1
  /\ LET entry == data[idx + 1]
         buf == IF entry.hasText THEN Append(buffer, entry.id) ELSE buffer
     IN IF entry.hasText /\ Len(buf) = bulk_size
          THEN /\ passed' = InsertMany(buf, passed)
               /\ IF ok
                    THEN /\ inserted_doc_count' = inserted_doc_count + Len(buf)
                         /\ buffer' = <<>>
                    ELSE /\ buffer' = buf
                         /\ UNCHANGED inserted_doc_count
          ELSE /\ buffer' = buf
               /\ UNCHANGED <<passed, inserted_doc_count>>
  /\ UNCHANGED <<lpc, data>>
  /\ UNCHANGED <<pvars, plvars, avars>>

\* after the loop: `if buffer:` insert what remains, then return
Load_Remaining(ok) ==
  /\ lpc = "loop"
  /\ idx = Len(data)
  /\ lpc' = "done"
  /\ IF buffer # <<>>
       THEN /\ passed' = InsertMany(buffer, passed)
            /\ inserted_doc_count' =
                 IF ok THEN inserted_doc_count + Len(buffer) ELSE inserted_doc_count
       ELSE UNCHANGED <<passed, inserted_doc_count>>
  /\ UNCHANGED <<data, idx, buffer>>
  /\ UNCHANGED <<pvars, plvars, avars>>

\* the function has not been called yet
LoaderIdle ==
  /\ lpc = "start"
  /\ idx = 0
  /\ buffer = <<>>
  /\ passed = [d \in 1..Len(data) |-> 0]
  /\ inserted_doc_count = 0

ProviderInit ==
  /\ pc = "idle"
  /\ props = NoProps
  /\ attempt = 0
  /\ pings = 0
  /\ badAuths = 0
  /\ otherFails = 0
  /\ sleeps = 0
  /\ lastGap = 0
  /\ waited = 0
  /\ client = 0
  /\ sessions = {}
  /\ cmds = 0
  /\ cmdOutcome = "none"
  /\ result = NoResult
  /\ remoteBefore = {}
  /\ remoteAfter = {}
  /\ prev = NoCall
  /\ scriptResult = "none"
  /\ scriptOutcome = "none"

PlanStart ==
  /\ node = [n \in Nodes |-> "Pending"]
  /\ collCmds = 0
  /\ indexReqs = 0
  /\ collSignal = "none"
  /\ polls = 0
  /\ lastStatus = "none"
  /\ errors = {}
  /\ firstDone = "none"
  /\ report = "none"

Init ==
  /\ ProviderInit
  /\ remoteColls = {}
  /\ PlanStart
  /\ AppStart
  /\ data = <<>>
  /\ LoaderIdle

Next ==
  \/ \E p \in PropsSet : Create_Start(p)
  \/ \E o \in PingOutcomes : Connect_Attempt(o)
  \/ Connect_Exhausted
  \/ \E f \in Faults : Create_Command(f)
  \/ \E f \in Faults : Script_Create(f)

Spec == Init /\ [][Next]_vars

PlanInit ==
  /\ ProviderInit
  /\ remoteColls \in SUBSET RemoteNamespaces
  /\ PlanStart
  /\ AppStart
  /\ data = <<>>
  /\ LoaderIdle

PlanNext ==
  \/ \E n \in Resources : Resource_Start(n)
  \/ \E n \in Resources, ok \in BOOLEAN : Resource_Finish(n, ok)
  \/ \E f \in Faults : Collection_Apply(f)
  \/ SearchIndex_Apply
  \/ \E st \in IndexStatuses : Index_Poll(st)
  \/ Report

PlanSpec == PlanInit /\ [][PlanNext]_vars

\* the run has ended: nothing more can happen
PlanEnded == ~ENABLED PlanNext

AppSpec == Init /\ [][AppNext]_vars

LoaderInit ==
  /\ ProviderInit
  /\ remoteColls = {}
  /\ PlanStart
  /\ AppStart
  /\ data \in DataSets
  /\ LoaderIdle

LoaderNext ==
  \/ \E ok \in BOOLEAN : Load_Read(ok)
  \/ \E ok \in BOOLEAN : Load_Entry(ok)
  \/ \E ok \in BOOLEAN : Load_Remaining(ok)

LoaderSpec == LoaderInit /\ [][LoaderNext]_vars

\* every resource that can be created and every callback that can run does
PlanFairSpec == PlanSpec /\ WF_vars(PlanNext)

\* the states of a node whose creation failed, and the nodes in one
FailedStates == {"Failed", "False", "Raised", "Timeout"}
FailedNodes == { n \in Nodes : node[n] \in FailedStates }

(***************************************************************************)
(* Properties of the provider layer, checked under Spec                    *)
(***************************************************************************)
\* the supervisor was called by the current create call and has returned
SupervisorReturned ==
  pc = "command" \/ (pc = "done" /\ result.kind # "ValueError")

\* C1: if every connection attempt is rejected with "bad auth", the
\* supervisor makes exactly max_retries attempts, then stops and returns
\* None; create raises RuntimeError and never issues the create command.
C1_RetryBound ==
  /\ (pc = "connect" /\ pings = badAuths) => pings <= max_retries
  /\ (SupervisorReturned /\ pings = badAuths) =>
        /\ pings = max_retries
        /\ client = 0
        /\ pc = "done"
        /\ result = Raised("RuntimeError")
        /\ cmds = 0

C1_Witness ==
  /\ pc = "done"
  /\ badAuths = max_retries
  /\ pings = badAuths
  /\ result = Raised("RuntimeError")

C3_NoRetryOnOtherError ==
  otherFails > 0 =>
     /\ otherFails = 1
     /\ pings = badAuths + 1
     /\ client = 0

\* C4: when create has returned or raised, every session opened during the
\* call is closed.
C4_SessionsReleased ==
  pc = "done" => sessions = {}

\* C5: if the database or the collection name is missing or empty, create
\* raises ValueError before any connection attempt: no session, no retry, no
\* delay, no remote command.
C5_InvalidSpecFailsFast ==
  (pc # "idle" /\ (Falsy(props, "db") \/ Falsy(props, "coll"))) =>
     /\ pc = "done"
     /\ result = Raised("ValueError")
     /\ pings = 0
     /\ attempt = 0
     /\ sleeps = 0
     /\ sessions = {}
     /\ client = 0
     /\ cmds = 0
     /\ remoteAfter = remoteBefore

C5_Witness ==
  /\ pc = "done"
  /\ "db" \in DOMAIN props
  /\ props.db = "ww"
  /\ "coll" \notin DOMAIN props
  /\ result = Raised("ValueError")

\* C6: when the remote answers the create command with "already exists",
\* the provider returns a CreateResult and the script's
\* create_mongodb_collection yields True.
C6_AlreadyExistsIsSuccess ==
  /\ (pc = "done" /\ cmdOutcome = "exists") => result = CreateResult(props)
  /\ scriptOutcome = "exists" => scriptResult = "True"

C6_Witness ==
  /\ pc = "done"
  /\ cmdOutcome = "exists"
  /\ result.kind = "CreateResult"
  /\ scriptOutcome = "exists"
  /\ scriptResult = "True"

\* C7: two consecutive create calls with the same spec, the first of which
\* created the collection: the second is answered "already exists" and
\* succeeds too, with the same id "<db>.<coll>" and the same outputs, and the
\* remote collections after the second call are those after the first.
C7_Idempotent ==
  ( /\ pc = "done"
    /\ prev.result.kind = "CreateResult"
    /\ prev.cmdOutcome = "created"
    /\ props = prev.props
    /\ remoteBefore = prev.after
    /\ cmdOutcome \in {"created", "exists"} ) =>
     /\ cmdOutcome = "exists"
     /\ result.kind = "CreateResult"
     /\ result.id = prev.result.id
     /\ result.id = props.db \o "." \o props.coll
     /\ result.outs = prev.result.outs
     /\ result.outs = props
     /\ remoteAfter = prev.after

C7_Witness ==
  /\ pc = "done"
  /\ prev.cmdOutcome = "created"
  /\ prev.result.id = "ww.notes"
  /\ props = prev.props
  /\ remoteBefore = prev.after
  /\ cmdOutcome = "exists"
  /\ result = prev.result

\* C8: when the remote rejects the create command with an error that is not
\* "already exists", create raises (RuntimeError) and the script's
\* create_mongodb_collection yields False; neither reports success.
C8_OtherErrorIsFailure ==
  /\ (pc = "done" /\ cmdOutcome \in {"rejected", "connection error"}) =>
        result = Raised("RuntimeError")
  /\ scriptOutcome = "rejected" => scriptResult = "False"
  /\ scriptOutcome = "connection error" => scriptResult # "True"

C8_Witness ==
  /\ pc = "done"
  /\ cmdOutcome = "rejected"
  /\ result = Raised("RuntimeError")
  /\ scriptOutcome = "rejected"
  /\ scriptResult = "False"

(***************************************************************************)
(* Properties of the orchestration script, checked under PlanSpec          *)
(***************************************************************************)
\* C9: the collection create command is not attempted before the database
\* user and the network access entry have succeeded, and the search index
\* is not requested before the collection creation has succeeded.
C9_DependencyOrder ==
  /\ (collCmds > 0 \/ node["collection"] # "Pending") =>
        (node["user"] = "Succeeded" /\ node["ip"] = "Succeeded")
  /\ (indexReqs > 0 \/ node["index"] \notin {"Pending", "None"}) =>
        node["collection"] = "True"

C9_Witness ==
  /\ collCmds = 1
  /\ indexReqs = 1
  /\ node["index"] = "Building"

\* C10: a dependent of a failed node never invokes its creation and ends
\* cascade-skipped, that is never attempted: a failed cluster leaves the user
\* unstarted, a failed resource leaves the collection callback unrun, and a
\* failed collection creation leaves the search index unrequested (its output
\* resolves to None when the creation yields False, and is never evaluated
\* when the creation raised).
C10_CascadeSkip ==
  /\ node["cluster"] = "Failed" => node["user"] = "Pending"
  /\ (\E n \in Resources : node[n] = "Failed") =>
        /\ collCmds = 0
        /\ node["collection"] = "Pending"
        /\ indexReqs = 0
        /\ node["index"] = "Pending"
  /\ node["collection"] = "False" =>
        /\ indexReqs = 0
        /\ node["index"] \in {"Pending", "None"}
        /\ PlanEnded => node["index"] = "None"
  /\ node["collection"] = "Raised" =>
        /\ indexReqs = 0
        /\ node["index"] = "Pending"

C10_Witness ==
  /\ node["collection"] = "False"
  /\ node["index"] = "None"
  /\ indexReqs = 0
  /\ PlanEnded

\* C11: a collection creation answered "already exists" counts as succeeded:
\* the search index is then requested, once, as after a fresh creation.
C11_AlreadyExistsProceeds ==
  collSignal \in {"created", "exists"} =>
     /\ node["collection"] = "True"
     /\ node["index"] = "Pending" => (indexReqs = 0 /\ ENABLED SearchIndex_Apply)
     /\ node["index"] # "Pending" =>
           (indexReqs = 1 /\ node["index"] \in {"Building", "Steady", "Failed", "Timeout"})

C11_Witness ==
  /\ collSignal = "exists"
  /\ node["collection"] = "True"
  /\ node["index"] = "Steady"
  /\ indexReqs = 1

\* C12: the "index is ready" result is emitted only when every node of the
\* plan has succeeded and the search index is Steady.
C12_ExportGated ==
  report = "ready" =>
     /\ \A n \in Resources : node[n] = "Succeeded"
     /\ node["collection"] = "True"
     /\ node["index"] = "Steady"
     /\ lastStatus = "STEADY"
     /\ FailedNodes = {}

C12_Witness ==
  /\ report = "ready"
  /\ node["index"] = "Steady"
  /\ polls > 0

\* C13 (a consequence of it): when the run has ended, either it reported
\* success with every node succeeded, or every failed node is named among the
\* reported failures; a run with a failed node never reports success.
C13_FailureReported ==
  /\ FailedNodes # {} => report # "ready"
  /\ PlanEnded =>
        \/ (report = "ready" /\ FailedNodes = {})
        \/ (FailedNodes # {} /\ FailedNodes \subseteq errors)

\* C14: a node that has failed stays failed for the rest of the run, and the
\* creation of that resource is not invoked again.
C14_FailedIsFinal ==
  [][ /\ \A n \in Nodes : node[n] \in FailedStates => node'[n] = node[n]
      /\ node["collection"] \in FailedStates => collCmds' = collCmds
      /\ node["index"] \in FailedStates => indexReqs' = indexReqs ]_vars

C14_Witness ==
  /\ node["collection"] = "False"
  /\ collCmds = 1
  /\ node["index"] = "None"
  /\ report = "AttributeError"

\* C15: if the index status is still Building when the wait runs out, the
\* wait ends with Timeout, which is neither Steady nor Failed, and nothing is
\* reported ready; the wait makes no more than MaxPolls + 1 observations.
C15_ReadinessTimeout ==
  /\ lastStatus = "BUILDING" => node["index"] \in {"Building", "Timeout"}
  /\ node["index"] = "Timeout" =>
        (lastStatus = "BUILDING" /\ polls = MaxPolls /\ report = "none")
  /\ polls <= MaxPolls

C15_Witness ==
  /\ node["index"] = "Timeout"
  /\ polls = MaxPolls
  /\ PlanEnded

\* C16: a run in which no creation fails and the index wait does not end
\* Failed or Timeout eventually emits the ready result.
C16_EventuallyReady ==
  <>(FailedNodes # {} \/ report = "ready")

C16_Witness ==
  /\ report = "ready"
  /\ collSignal = "created"
  /\ polls = 2
  /\ FailedNodes = {}

C18_EndpointErrors ==
  reqs > 0 =>
     /\ ("prompt" \notin DOMAIN args \/ args["prompt"] = "") =>
           /\ resp.status = 400
           /\ resp.kind = "Missing prompt"
           /\ embedCalls = 0
           /\ dbCalls = 0
     /\ dbOutcome.kind \in {"PyMongoError", "OperationFailure", "NetworkTimeout"} =>
           (resp.status = 500 /\ resp.kind = "Database error")
     /\ resp.kind = "results" =>
           (dbOutcome.kind = "ok" /\ resp.status = 200 /\ resp.query = args["prompt"])

C18_Witness ==
  /\ reqs = 2
  /\ args = [prompt |-> "wonders"]
  /\ dbOutcome.kind = "NetworkTimeout"
  /\ resp.status = 500

(***************************************************************************)
(* Further properties of the provider layer, checked under Spec            *)
(***************************************************************************)
\* C19: whatever the outcomes of the connection attempts, the supervisor
\* makes at most max_retries attempts in one call.
C19_AttemptsBounded ==
  pings <= max_retries

\* C20: in one create call the remote create command is issued at most once,
\* whatever the remote answers.
C20_CommandAtMostOnce ==
  /\ cmds <= 1
  /\ pc = "done" => (cmds = 1 <=> cmdOutcome # "none")
  /\ pc = "command" => cmds = 0

C20_Witness ==
  /\ pc = "done"
  /\ cmds = 1
  /\ cmdOutcome = "rejected"
  /\ result = Raised("RuntimeError")

\* C21 (a consequence of it): the first connection attempt of a call is not
\* preceded by a delay, and every later attempt comes exactly retry_delay
\* seconds after the attempt before it.
C21_FixedDelay ==
  pings >= 1 => lastGap = (IF pings = 1 THEN 0 ELSE retry_delay)

\* C22: the create command is issued only with the session the supervisor
\* returned, which is the session of the latest ping, and that ping succeeded;
\* a call in which the supervisor returned no session has issued no create
\* command and has raised.
C22_CommandNeedsSession ==
  /\ (pc = "command" \/ cmds > 0) =>
        /\ client # 0
        /\ client = pings
        /\ client \in sessions \/ pc = "done"
        /\ pings = badAuths + otherFails + 1
  /\ (pc = "done" /\ ~InvalidSpec(props) /\ client = 0) =>
        /\ cmds = 0
        /\ cmdOutcome = "none"
        /\ result = Raised("RuntimeError")

\* the create command was issued after two rejected pings and a third that
\* succeeded
C22_Witness ==
  /\ cmds = 1
  /\ badAuths = 2
  /\ pings = 3
  /\ client = 3

(***************************************************************************)
(* Properties of the sample-data loader, checked under LoaderSpec          *)
(***************************************************************************)
\* C23: the buffer never holds more than bulk_size documents, and no document
\* is passed to insert_many more than once.
C23_BatchBounded ==
  /\ Len(buffer) <= bulk_size
  /\ \A d \in DOMAIN passed : passed[d] <= 1

====
